---- MODULE Spec2Model ----
(***************************************************************************)
(* RecipeBox: the recipe manager (recipes.py), its JSON storage engine     *)
(* (storage.py), the entity model (models.py) and the shopping-list        *)
(* generator (shopping_list.py).                                           *)
(*                                                                         *)
(* Strings are sequences of characters, so that strip() is computed.       *)
(* An Optional value is a set: {} is None and {v} is the value v.          *)
(* A file is a record: absent, malformed text, or a JSON document.         *)
(* A save and a load are run step by step (pc), so that every intermediate *)
(* state of the files is a state of the model.                             *)
(***************************************************************************)
EXTENDS Naturals, Sequences, FiniteSets, TLC

\* ------------------------------------------------------------------ bounds
MaxRecipes == 3      \* add is not called on a collection of this length
MaxEvents == 3       \* per run: manager calls that reach a save, failing
                     \* I/O operations, restarts, corruptions of the file
RecursionLimit == 2  \* nested load_recipes() frames the interpreter allows
MaxLoaded == 3       \* recipes of a collection that is searched or aggregated

\* ----------------------------------------------------------------- strings
SP == " "
SUR == "\\ud800"     \* a lone surrogate: a str character UTF-8 cannot encode
EA == "\\u00e9"      \* a character that UTF-8 encodes in two bytes

IsSpace(c) == c = SP

RECURSIVE lstrip(_)
lstrip(s) ==
    IF s = <<>> THEN <<>>
    ELSE IF IsSpace(Head(s)) THEN lstrip(Tail(s)) ELSE s

RECURSIVE rstrip(_)
rstrip(s) ==
    IF s = <<>> THEN <<>>
    ELSE IF IsSpace(s[Len(s)]) THEN rstrip(SubSeq(s, 1, Len(s) - 1)) ELSE s

\* faulty variant: only leading whitespace is removed
strip_leading(s) == lstrip(s)

\* str.strip()
strip(s) == rstrip(lstrip(s))

\* the lower-case form of one character (the letters the inputs use)
LowerChar(c) ==
    CASE c = "A" -> "a"
      [] c = "B" -> "b"
      [] c = "O" -> "o"
      [] c = "T" -> "t"
      [] OTHER -> c

\* str.lower()
lower(s) == [k \in 1..Len(s) |-> LowerChar(s[k])]

Lowercase == <<"a", "b", "c", "d", "e", "f", "g", "h", "i", "j", "k", "l", "m",
               "n", "o", "p", "q", "r", "s", "t", "u", "v", "w", "x", "y", "z">>
Uppercase == <<"A", "B", "C", "D", "E", "F", "G", "H", "I", "J", "K", "L", "M",
               "N", "O", "P", "Q", "R", "S", "T", "U", "V", "W", "X", "Y", "Z">>
Digits == <<"0", "1", "2", "3", "4", "5", "6", "7", "8", "9">>

\* the characters in the order of their code points
CodeOrder == <<SP>> \o Digits \o Uppercase \o Lowercase \o <<SUR>>

\* the rank of a character in that order (0 for any other character)
Ord(c) ==
    IF \E i \in 1..Len(CodeOrder) : CodeOrder[i] = c
    THEN CHOOSE i \in 1..Len(CodeOrder) : CodeOrder[i] = c
    ELSE 0

\* "a < b" for two str: the first differing character decides, a proper
\* prefix is smaller
RECURSIVE StrLess(_, _)
StrLess(a, b) ==
    IF b = <<>> THEN FALSE
    ELSE IF a = <<>> THEN TRUE
    ELSE IF Head(a) = Head(b) THEN StrLess(Tail(a), Tail(b))
    ELSE Ord(Head(a)) < Ord(Head(b))

\* the upper-case form of one character
UpperChar(c) ==
    IF \E i \in 1..Len(Lowercase) : Lowercase[i] = c
    THEN Uppercase[CHOOSE i \in 1..Len(Lowercase) : Lowercase[i] = c]
    ELSE c

\* a letter: a character that has a case
IsCased(c) ==
    \E i \in 1..Len(Lowercase) : Lowercase[i] = c \/ Uppercase[i] = c

\* faulty variant: the text is returned as it is
RECURSIVE TitleFrom_asis(_, _, _)
TitleFrom_asis(s, k, afterCased) ==
    IF k > Len(s) THEN <<>>
    ELSE <<s[k]>> \o TitleFrom_asis(s, k + 1, IsCased(s[k]))

\* str.title() from position k on: a letter that follows a letter is
\* lower-cased, any other letter is upper-cased
RECURSIVE TitleFrom(_, _, _)
TitleFrom(s, k, afterCased) ==
    IF k > Len(s) THEN <<>>
    ELSE <<IF afterCased THEN LowerChar(s[k]) ELSE UpperChar(s[k])>>
         \o TitleFrom(s, k + 1, IsCased(s[k]))

\* str.title()
title(s) == TitleFrom(s, 1, FALSE)

\* sep.join(parts)
RECURSIVE join(_, _)
join(sep, parts) ==
    IF parts = <<>> THEN <<>>
    ELSE IF Len(parts) = 1 THEN parts[1]
    ELSE parts[1] \o sep \o join(sep, Tail(parts))

\* "needle in hay" for two str
Contains(hay, needle) ==
    \E k \in 0..(Len(hay) - Len(needle)) :
        SubSeq(hay, k + 1, k + Len(needle)) = needle

\* ---------------------------------------------------------------- Optional
None == {}
Some(v) == {v}
Get(o) == CHOOSE v \in o : TRUE

\* ------------------------------------------------------------ entity model
Ingredient(n, q) == [name |-> n, quantity |-> q]

Recipe(i, n, ings, st, fav, cat) ==
    [id |-> i, name |-> n, ingredients |-> ings, steps |-> st,
     favorite |-> fav, category |-> cat]

\* faulty variant: every identifier drawn is the same
uuid4_fixed(n) == "f1"

\* str(uuid4()): the n-th identifier the process draws
uuid4(n) == "uuid-" \o ToString(n)

\* Recipe.to_dict
to_dict(r) ==
    [id |-> r.id,
     name |-> r.name,
     ingredients |-> [k \in 1..Len(r.ingredients) |->
                        [name |-> r.ingredients[k].name,
                         quantity |-> r.ingredients[k].quantity]],
     steps |-> r.steps,
     favorite |-> r.favorite,
     category |-> r.category]

\* a JSON record that is not an object (a number, a string, a list)
NonObject == [nonobject |-> TRUE]
IsObject(d) == "nonobject" \notin DOMAIN d

\* dict.get(key, default)
DictGet(d, key, default) == IF key \in DOMAIN d THEN d[key] ELSE default

\* ing["name"], ing["quantity"] raise KeyError on an entry without the key
IngredientsOk(d) ==
    \A k \in 1..Len(DictGet(d, "ingredients", <<>>)) :
        {"name", "quantity"} \subseteq DOMAIN DictGet(d, "ingredients", <<>>)[k]

\* faulty variant: the favorite flag is not read back
from_dict_nofav(d, fresh) ==
    [id |-> DictGet(d, "id", fresh),
     name |-> DictGet(d, "name", <<>>),
     ingredients |-> [k \in 1..Len(DictGet(d, "ingredients", <<>>)) |->
                        [name |-> DictGet(d, "ingredients", <<>>)[k].name,
                         quantity |-> DictGet(d, "ingredients", <<>>)[k].quantity]],
     steps |-> DictGet(d, "steps", <<>>),
     favorite |-> FALSE,
     category |-> DictGet(d, "category", None)]

\* Recipe.from_dict on an object whose ingredient entries are complete;
\* fresh is the identifier uuid4() returns in this call
from_dict(d, fresh) ==
    [id |-> DictGet(d, "id", fresh),
     name |-> DictGet(d, "name", <<>>),
     ingredients |-> [k \in 1..Len(DictGet(d, "ingredients", <<>>)) |->
                        Ingredient(DictGet(d, "ingredients", <<>>)[k].name,
                                   DictGet(d, "ingredients", <<>>)[k].quantity)],
     steps |-> DictGet(d, "steps", <<>>),
     favorite |-> DictGet(d, "favorite", FALSE),
     category |-> DictGet(d, "category", None)]

\* ------------------------------------------------------------------- files
Absent == [kind |-> "absent"]
Garbage == [kind |-> "malformed", how |-> "garbage"]
Truncated == [kind |-> "malformed", how |-> "truncated"]
\* text on which json.load raises an exception that is not JSONDecodeError:
\* bytes that are not UTF-8 (UnicodeDecodeError), brackets nested deeper
\* than the interpreter recurses (RecursionError)
Undecodable == [kind |-> "malformed", how |-> "undecodable"]
\* a JSON document: shape is "array", "wrapped" ({"recipes": [...]}) or
\* "other" (any other JSON value)
JsonFile(shape, recs) == [kind |-> "json", shape |-> shape, recs |-> recs]

Exists(f) == f.kind # "absent"

\* the file holds a character of more than one byte
HasWide(f) ==
    /\ f.kind = "json"
    /\ \E k \in 1..Len(f.recs) :
          /\ "name" \in DOMAIN f.recs[k]
          /\ \E i \in 1..Len(f.recs[k].name) : f.recs[k].name[i] = EA

\* what is on disk when the writing of the content f stopped part-way: a
\* document cut between two characters, or cut within a character (text
\* that is not UTF-8)
Cuts(f) ==
    IF HasWide(f) \/ f = Undecodable THEN {Truncated, Undecodable}
    ELSE {Truncated}

\* json.dump([recipe.to_dict() for recipe in recipes], ...) written in full
Dump(rs) == JsonFile("array", [k \in 1..Len(rs) |-> to_dict(rs[k])])

\* a str holding a lone surrogate makes the UTF-8 writer raise
\* UnicodeEncodeError (a ValueError, not an OSError)
HasSur(s) == \E k \in 1..Len(s) : s[k] = SUR

Encodable(r) ==
    /\ ~HasSur(r.name)
    /\ ~HasSur(r.steps)
    /\ \A c \in r.category : ~HasSur(c)
    /\ \A k \in 1..Len(r.ingredients) :
          ~HasSur(r.ingredients[k].name) /\ ~HasSur(r.ingredients[k].quantity)

AllEncodable(rs) == \A k \in 1..Len(rs) : Encodable(rs[k])

\* the loop of load_recipes over recipes_data: records that raise KeyError
\* or TypeError are skipped, a record that is not an object raises
\* AttributeError out of the loop.  nid counts the identifiers drawn.
RECURSIVE ParseRecords(_, _)
ParseRecords(recs, nid) ==
    IF recs = <<>> THEN [out |-> <<>>, nid |-> nid, raised |-> "none"]
    ELSE IF ~IsObject(Head(recs))
         THEN [out |-> <<>>, nid |-> nid, raised |-> "AttributeError"]
    ELSE IF ~IngredientsOk(Head(recs))
         THEN ParseRecords(Tail(recs), nid)
    ELSE LET needs == "id" \notin DOMAIN Head(recs)
             r == from_dict(Head(recs), uuid4(nid + 1))
             rest == ParseRecords(Tail(recs), IF needs THEN nid + 1 ELSE nid)
         IN [out |-> <<r>> \o rest.out, nid |-> rest.nid, raised |-> rest.raised]

\* ------------------------------------------------------------------- state
VARIABLES
    primary,      \* recipes.json
    backup,       \* recipes.json.backup
    temp,         \* recipes.json.tmp
    recipes,      \* RecipeManager._recipes
    pc,           \* position of the process
    depth,        \* nested load_recipes() frames
    nid,          \* identifiers drawn from uuid4 so far
    call,         \* the manager call in progress
    ret,          \* how the last manager call ended
    before,       \* history: _recipes when the last call began
    old,          \* history: the primary file when the last load or save began
    loadRaised,   \* history: what load_recipes raised to the constructor
    trail,        \* history: the stages of the last load or save
    failed,       \* history: calls of this run whose save failed
    events,       \* calls that saved, I/O failures, restarts, corruptions
    arg,          \* history: the arguments of the last call
    out,          \* history: what the last search or generate returned
    named,        \* history: per recipe, whether add or update set its name
    hist,         \* history: the last toggle or delete, and the one before it
                  \* when that was the same operation on the same id
    shell         \* the shell: the list it displayed last, and the command
                  \* being run with the recipe its argument resolved to

vars == <<primary, backup, temp, recipes, pc, depth, nid, call, ret, before,
          old, loadRaised, trail, failed, events, arg, out, named, hist,
          shell>>

files == <<primary, backup, temp>>

\* one more event of the run
Event == events < MaxEvents /\ events' = events + 1

\* an I/O operation fails
Fault == Event
NoFault == UNCHANGED events

\* a call: the operation, the id it is about, the value it returns and the
\* name argument it was given (None when it takes or was given none)
Call(op, rid, flag, name) ==
    [op |-> op, rid |-> rid, flag |-> flag, name |-> name]
NoCall == Call("none", "", FALSE, None)
Ret(c, outcome) ==
    [op |-> c.op, outcome |-> outcome, rid |-> c.rid, flag |-> c.flag,
     name |-> c.name]
NoRet == Ret(NoCall, "none")
InitCall == Call("init", "", FALSE, None)

\* no arguments; no returned collection
NoArg == [kind |-> "none"]
NoOut == [kind |-> "none"]

\* the shell at its first prompt: nothing displayed, no command run
NoShell == [shown |-> <<>>, cmd |-> "none", index |-> 0, target |-> None]

\* ------------------------------------------------------------------ inputs
s_a == <<"a">>
s_B == <<SP, "B", SP>>
F1 == [id |-> "f1", name |-> s_a, ingredients |-> <<>>, steps |-> <<>>,
       favorite |-> FALSE, category |-> None]
F1b == [id |-> "f1", name |-> <<"B">>, ingredients |-> <<>>, steps |-> <<>>,
        favorite |-> TRUE, category |-> None]
F2 == [id |-> "f2", name |-> <<"b">>,
       ingredients |-> <<[name |-> <<"T">>, quantity |-> <<"2">>]>>,
       steps |-> <<"s">>, favorite |-> TRUE, category |-> Some(<<"c">>)]
\* lenient records: no id; an ingredient entry without quantity
NoId == [name |-> s_a]
BadIng == [id |-> "f3", ingredients |-> <<[name |-> <<"T">>]>>]
\* a persisted record whose name is whitespace: load does not validate it
Unnamed == [id |-> "f4", name |-> <<SP>>]

\* a persisted record whose name has a character of two bytes
Wide == [id |-> "f5", name |-> <<EA>>]

InitDisk ==
    { <<Absent, Absent>>,
      <<Garbage, Absent>>,
      <<Garbage, JsonFile("array", <<F2>>)>>,
      <<Garbage, Garbage>>,
      <<Undecodable, JsonFile("array", <<F2>>)>>,
      <<JsonFile("array", <<Wide>>), Absent>>,
      <<JsonFile("array", <<F1, F2>>), JsonFile("array", <<F2>>)>>,
      <<JsonFile("wrapped", <<F1, F1b>>), Absent>>,
      <<JsonFile("array", <<BadIng, NoId, Unnamed>>), Absent>>,
      <<JsonFile("array", <<F2, NonObject>>), Absent>>,
      <<JsonFile("other", <<>>), Absent>> }


AddInputs ==
    { [name |-> s_B,
       ingredients |-> <<Ingredient(<<"T">>, <<"2">>),
                         Ingredient(<<SP, "t">>, <<"1", SP>>)>>,
       steps |-> <<"s">>, favorite |-> TRUE, category |-> Some(<<SP, "c">>)],
      [name |-> s_a, ingredients |-> <<>>, steps |-> <<>>,
       favorite |-> FALSE, category |-> Some(<<SP>>)],
      [name |-> <<SUR>>, ingredients |-> <<>>, steps |-> <<>>,
       favorite |-> FALSE, category |-> Some(<<>>)],
      [name |-> <<>>, ingredients |-> <<>>, steps |-> <<>>,
       favorite |-> FALSE, category |-> None],
      [name |-> <<SP>>, ingredients |-> <<>>, steps |-> <<>>,
       favorite |-> TRUE, category |-> Some(<<"c">>)] }

UpdateInputs ==
    { [name |-> Some(<<SP, "b">>), ingredients |-> None, steps |-> None,
       favorite |-> Some(TRUE), category |-> None],
      [name |-> None, ingredients |-> Some(<<Ingredient(<<"O">>, <<"1">>)>>),
       steps |-> Some(<<"x">>), favorite |-> None, category |-> Some(<<SP>>)],
      [name |-> Some(<<SUR>>), ingredients |-> None, steps |-> None,
       favorite |-> None, category |-> Some(<<>>)],
      [name |-> Some(<<SP>>), ingredients |-> None, steps |-> None,
       favorite |-> Some(TRUE), category |-> None],
      [name |-> Some(<<>>), ingredients |-> None, steps |-> None,
       favorite |-> None, category |-> None] }

Ids(rs) == { rs[k].id : k \in 1..Len(rs) }
\* the ids passed to a call: the id of a recipe of the collection, the id
\* the last toggle or delete was given (that recipe may be gone by now), or
\* an id no recipe ever had
IdInputs ==
    Ids(recipes) \cup { hist[k].rid : k \in 1..Len(hist) } \cup {"nope"}

\* outcomes of shutil.copy(src, dst): done ("ok"); raised before dst was
\* opened ("untouched"); raised after dst was opened for writing, the content
\* cut between two characters ("truncated") or within one ("cut_in_char");
\* raised by copymode after all of src was written ("written")
CopyOutcomes(src) ==
    {"ok", "untouched", "truncated", "written"}
    \cup (IF Undecodable \in Cuts(src) THEN {"cut_in_char"} ELSE {})

\* shutil.copy returned without raising
CopyDone(outcome) == outcome = "ok"

\* dst after shutil.copy(src, dst)
Copied(src, dst, outcome) ==
    CASE outcome \in {"ok", "written"} -> src
      [] outcome = "untouched" -> dst
      [] outcome = "truncated" -> Truncated
      [] OTHER -> Undecodable

\* -------------------------------------------------------------------- Init
Init ==
    /\ \E d \in InitDisk : primary = d[1] /\ backup = d[2]
    /\ temp = Absent
    /\ recipes = <<>>
    /\ pc = "start"
    /\ depth = 0
    /\ nid = 0
    /\ call = NoCall
    /\ ret = NoRet
    /\ before = <<>>
    /\ old = Absent
    /\ loadRaised = "none"
    /\ trail = <<>>
    /\ failed = 0
    /\ events = 0
    /\ arg = NoArg
    /\ out = NoOut
    /\ named = <<>>
    /\ hist = <<>>
    /\ shell = NoShell

\* --------------------------------------------------- RecipeManager.__init__
\* self._recipes = []; self._load_recipes() enters storage.load_recipes()
Construct ==
    /\ pc = "start"
    /\ pc' = "load_read"
    /\ recipes' = <<>>
    /\ depth' = 0
    /\ loadRaised' = "none"
    /\ old' = primary
    /\ trail' = <<>>
    /\ named' = <<>>
    /\ UNCHANGED <<files, nid, call, ret, before, failed, events, arg, out,
                   hist, shell>>

\* load_recipes returns rs to the frame below; the outermost frame returns
\* to _load_recipes, which stores it
LoadReturn(rs, stage) ==
    /\ recipes' = rs
    /\ named' = [k \in 1..Len(rs) |-> FALSE]
    /\ pc' = "returned"
    /\ ret' = Ret(InitCall, "ok")
    /\ trail' = Append(trail, stage)

\* load_recipes raises e: a nested frame is inside the restore handler's
\* try, whose except Exception returns []; out of the outermost frame the
\* exception reaches _load_recipes, whose except Exception stores []
LoadRaise(e) ==
    /\ recipes' = <<>>
    /\ named' = <<>>
    /\ pc' = "returned"
    /\ ret' = Ret(InitCall, "ok")
    /\ trail' = Append(trail, e)
    /\ loadRaised' = IF depth = 0 THEN e ELSE loadRaised

\* the result of load_recipes on a readable JSON document
LoadJson(f, n) ==
    IF f.shape = "other"
    THEN [out |-> <<>>, nid |-> n, raised |-> "none"]
    ELSE ParseRecords(f.recs, n)

\* load_recipes up to the handler of JSONDecodeError
LoadRead ==
    /\ pc = "load_read"
    /\ \/ /\ ~Exists(primary)
          /\ NoFault
          /\ LoadReturn(<<>>, "Absent")
          /\ UNCHANGED <<nid, loadRaised>>
       \/ /\ Fault                    \* exists(), open() or read() fails
          /\ LoadRaise("IOError")
          /\ UNCHANGED nid
       \/ /\ primary = Undecodable    \* caught by neither handler
          /\ NoFault
          /\ LoadRaise("UnicodeDecodeError")
          /\ UNCHANGED nid
       \/ /\ primary.kind = "malformed"
          /\ primary # Undecodable
          /\ NoFault
          /\ IF Exists(backup)
             THEN /\ pc' = "load_restore"
                  /\ trail' = Append(trail, "DecodeError")
                  /\ UNCHANGED <<recipes, named, ret>>
             ELSE LoadReturn(<<>>, "DecodeError")
          /\ UNCHANGED <<nid, loadRaised>>
       \/ /\ primary.kind = "json"
          /\ NoFault
          /\ LET res == LoadJson(primary, nid)
             IN /\ nid' = res.nid
                /\ IF res.raised = "none"
                   THEN LoadReturn(res.out, "Parsed") /\ UNCHANGED loadRaised
                   ELSE LoadRaise(res.raised)
    /\ UNCHANGED <<files, depth, call, before, old, failed, arg, out, hist,
                   shell>>

\* the handler of JSONDecodeError when a backup exists: copy it over the
\* primary file and call load_recipes() again
LoadRestore ==
    /\ pc = "load_restore"
    /\ IF depth >= RecursionLimit
       THEN \* RecursionError, caught by except Exception
            /\ LoadReturn(<<>>, "RecursionError")
            /\ NoFault
            /\ UNCHANGED <<primary, depth>>
       ELSE \E outcome \in CopyOutcomes(backup) :
            /\ IF CopyDone(outcome) THEN NoFault ELSE Fault
            /\ primary' = Copied(backup, primary, outcome)
            /\ IF CopyDone(outcome)
               THEN /\ pc' = "load_read"
                    /\ depth' = depth + 1
                    /\ trail' = Append(trail, "Copied")
                    /\ UNCHANGED <<recipes, named, ret>>
               ELSE /\ LoadReturn(<<>>, "CopyFailed")
                    /\ UNCHANGED depth
    /\ UNCHANGED <<backup, temp, nid, call, before, old, loadRaised, failed,
                   arg, out, hist, shell>>

\* ----------------------------------------------------------- RecipeManager
\* get_recipe_by_id: the position of the first recipe with this id, 0 if none
RECURSIVE IndexFrom(_, _, _)
IndexFrom(rs, id, k) ==
    IF k > Len(rs) THEN 0
    ELSE IF rs[k].id = id THEN k ELSE IndexFrom(rs, id, k + 1)

\* faulty variant: the first recipe is returned whatever its id
get_recipe_by_id_any(rs, id) == IF rs = <<>> THEN 0 ELSE 1

get_recipe_by_id(rs, id) == IndexFrom(rs, id, 1)

\* "category.strip() if category else None"
CategoryOf(c) ==
    IF c # None /\ Get(c) # <<>> THEN Some(strip(Get(c))) ELSE None

\* faulty variant: the name is tested before it is stripped
EmptyName_unstripped(n) == n = <<>>

\* "not name or not name.strip()"
EmptyName(n) == n = <<>> \/ strip(n) = <<>>

\* the Recipe(...) that add_recipe builds
NewRecipe(a, id) ==
    Recipe(id, strip(a.name), a.ingredients, a.steps, a.favorite,
           CategoryOf(a.category))

\* faulty variant: the favorite flag is cleared when it is not supplied
Updated_reset(r, u) ==
    [id |-> r.id,
     name |-> IF u.name # None THEN strip(Get(u.name)) ELSE r.name,
     ingredients |-> IF u.ingredients # None THEN Get(u.ingredients)
                     ELSE r.ingredients,
     steps |-> IF u.steps # None THEN Get(u.steps) ELSE r.steps,
     favorite |-> IF u.favorite # None THEN Get(u.favorite) ELSE FALSE,
     category |-> IF u.category # None THEN CategoryOf(u.category)
                  ELSE r.category]

\* the assignments of update_recipe, in the order of the code
Updated(r, u) ==
    [id |-> r.id,
     name |-> IF u.name # None THEN strip(Get(u.name)) ELSE r.name,
     ingredients |-> IF u.ingredients # None THEN Get(u.ingredients)
                     ELSE r.ingredients,
     steps |-> IF u.steps # None THEN Get(u.steps) ELSE r.steps,
     favorite |-> IF u.favorite # None THEN Get(u.favorite) ELSE r.favorite,
     category |-> IF u.category # None THEN CategoryOf(u.category)
                  ELSE r.category]

\* faulty variant: the first entry is removed, whatever the position found
Remove_first(rs, i) == Tail(rs)

\* "del self._recipes[i]"
Remove(rs, i) == SubSeq(rs, 1, i - 1) \o SubSeq(rs, i + 1, Len(rs))

\* a call that ends without reaching _save_recipes
Ends(c, outcome) ==
    /\ ret' = Ret(c, outcome)
    /\ pc' = "returned"
    /\ UNCHANGED <<files, recipes, depth, nid, call, before, old,
                   loadRaised, trail, failed, events, out, named>>

\* a call whose change to _recipes is made and which enters _save_recipes
Saves(c, rs) ==
    /\ Event
    /\ recipes' = rs
    /\ call' = c
    /\ before' = recipes
    /\ old' = primary
    /\ trail' = <<"Idle">>
    /\ pc' = "save_backup"
    /\ UNCHANGED <<files, ret, depth, loadRaised, failed, out>>

\* history: this toggle or delete, and the call before it when that was the
\* same operation on the same id
\* (ok: it returned normally; flag: the value it returned; before: the
\* collection it was called on)
Chain(c, ok) ==
    <<[op |-> c.op, rid |-> c.rid, flag |-> c.flag, ok |-> ok,
       before |-> recipes]>>
    \o (IF hist # <<>> /\ hist[1].op = c.op /\ hist[1].rid = c.rid
        THEN <<hist[1]>> ELSE <<>>)

add_recipe(a) ==
    /\ pc = "idle"
    /\ arg' = a
    /\ hist' = <<>>
    /\ IF EmptyName(a.name)
       THEN /\ Ends(Call("add", "", FALSE, Some(a.name)), "ValueError_name")
       ELSE /\ Len(recipes) < MaxRecipes
            /\ nid' = nid + 1
            /\ named' = Append(named, TRUE)
            /\ Saves(Call("add", uuid4(nid + 1), FALSE, Some(a.name)),
                     Append(recipes, NewRecipe(a, uuid4(nid + 1))))

\* faulty variant: the flag is set instead of negated
Flipped_set(f) == TRUE

\* "not recipe.favorite"
Flipped(f) == ~f

toggle_favorite(id) ==
    /\ pc = "idle"
    /\ arg' = NoArg
    /\ LET i == get_recipe_by_id(recipes, id)
       IN IF i = 0
          THEN /\ Ends(Call("toggle", id, FALSE, None), "ValueError_notfound")
               /\ hist' = <<>>
          ELSE /\ Saves(Call("toggle", id, Flipped(recipes[i].favorite), None),
                        [recipes EXCEPT
                            ![i].favorite = Flipped(recipes[i].favorite)])
               /\ hist' = Chain(Call("toggle", id,
                                       Flipped(recipes[i].favorite), None),
                                  FALSE)
               /\ UNCHANGED <<nid, named>>

update_recipe(id, u) ==
    /\ pc = "idle"
    /\ arg' = u
    /\ hist' = <<>>
    /\ LET i == get_recipe_by_id(recipes, id)
       IN IF i = 0
          THEN Ends(Call("update", id, FALSE, u.name), "ValueError_notfound")
          ELSE IF u.name # None /\ strip(Get(u.name)) = <<>>
          THEN Ends(Call("update", id, FALSE, u.name), "ValueError_name")
          ELSE /\ Saves(Call("update", id, FALSE, u.name),
                        [recipes EXCEPT ![i] = Updated(recipes[i], u)])
               /\ named' = IF u.name # None THEN [named EXCEPT ![i] = TRUE]
                           ELSE named
               /\ UNCHANGED nid

delete_recipe(id) ==
    /\ pc = "idle"
    /\ arg' = NoArg
    /\ LET i == get_recipe_by_id(recipes, id)
       IN IF i = 0
          THEN /\ Ends(Call("delete", id, FALSE, None), "ok")
               /\ hist' = Chain(Call("delete", id, FALSE, None), TRUE)
          ELSE /\ Saves(Call("delete", id, TRUE, None), Remove(recipes, i))
               /\ hist' = Chain(Call("delete", id, TRUE, None), FALSE)
               /\ named' = Remove(named, i)
               /\ UNCHANGED nid

\* a call that reads the collection and returns a value
Reads(c, a, o) ==
    /\ ret' = Ret(c, "ok")
    /\ arg' = a
    /\ out' = o
    /\ pc' = "returned"
    /\ UNCHANGED <<files, recipes, depth, nid, call, before, old, loadRaised,
                   trail, failed, events, named, hist>>

\* "search_term_lower in recipe.name.lower()", or in the lower-case name of
\* an ingredient
Matches(r, t) ==
    \/ Contains(lower(r.name), t)
    \/ \E k \in 1..Len(r.ingredients) : Contains(lower(r.ingredients[k].name), t)

\* the body of the loop over self._recipes: recipe k is appended at most
\* once ("continue" after the name, "break" after the first ingredient)
MatchesOf(r, t, k) == IF Matches(r, t) THEN <<k>> ELSE <<>>

\* the loop of search_recipes from position k on: the positions, in
\* self._recipes, of the recipes appended to matching_recipes
RECURSIVE matching_recipes(_, _, _)
matching_recipes(rs, t, k) ==
    IF k > Len(rs) THEN <<>>
    ELSE MatchesOf(rs[k], t, k) \o matching_recipes(rs, t, k + 1)

\* the search terms the shell passes
SearchInputs == { <<>>, <<SP>>, <<"B">>, <<"t", SP>>, <<"x">> }

search_recipes(term) ==
    /\ pc = "idle"
    /\ Reads(Call("search", "", FALSE, None), [term |-> term],
             [hits |-> IF term = <<>> THEN <<>>
                       ELSE matching_recipes(recipes, strip(lower(term)), 1)])

\* the comprehension of get_favorite_recipes from position k on: the
\* positions of the recipes whose favorite flag is set, in order
RECURSIVE FavoritesFrom(_, _)
FavoritesFrom(rs, k) ==
    IF k > Len(rs) THEN <<>>
    ELSE (IF rs[k].favorite THEN <<k>> ELSE <<>>) \o FavoritesFrom(rs, k + 1)

\* get_all_recipes: self._recipes.copy()
all_recipes(rs) == [k \in 1..Len(rs) |-> k]

\* get_favorite_recipes
favorite_recipes(rs) == FavoritesFrom(rs, 1)

\* faulty variant: the list itself is returned, not a copy of it
copy_shared(rs) ==
    [hits |-> all_recipes(rs), shared |-> TRUE, edited |-> FALSE]

\* list.copy(): a new list of the same recipes, in the same order
\* (hits: the positions, in self._recipes, of the recipes returned; shared:
\* the value returned is the list self._recipes itself)
copy(rs) == [hits |-> all_recipes(rs), shared |-> FALSE, edited |-> FALSE]

get_all_recipes ==
    /\ pc = "idle"
    /\ Reads(Call("get_all", "", FALSE, None), NoArg, copy(recipes))

\* get_recipe_by_id as a call of its own: the recipe found, or None
get_by_id(id) ==
    /\ pc = "idle"
    /\ Reads(Call("get_by_id", id, FALSE, None), NoArg,
             [hits |-> IF get_recipe_by_id(recipes, id) = 0 THEN <<>>
                       ELSE <<get_recipe_by_id(recipes, id)>>])

get_favorite_recipes ==
    /\ pc = "idle"
    /\ Reads(Call("get_favorites", "", FALSE, None), NoArg,
             [hits |-> favorite_recipes(recipes)])

\* list.reverse()
RECURSIVE Reversed(_)
Reversed(l) == IF l = <<>> THEN <<>> ELSE Append(Reversed(Tail(l)), Head(l))

\* what the caller of get_all_recipes does to the list it was given: it
\* removes the first element, reverses the list, or appends an element
ListEdits(l) == { Tail(l), Reversed(l), Append(l, Head(l)) }

\* the caller changes the list get_all_recipes returned; when that list is
\* self._recipes itself, the collection changes with it
edit_returned_list ==
    /\ pc = "returned"
    /\ ret.op = "get_all"
    /\ ~out.edited
    /\ out.hits # <<>>
    /\ \E e \in ListEdits(out.hits) :
          /\ out' = [out EXCEPT !.hits = e, !.edited = TRUE]
          /\ recipes' = IF out.shared
                        THEN [k \in 1..Len(e) |-> recipes[e[k]]]
                        ELSE recipes
          /\ named' = IF out.shared
                      THEN [k \in 1..Len(e) |-> named[e[k]]]
                      ELSE named
    /\ UNCHANGED <<files, pc, depth, nid, call, ret, before, old, loadRaised,
                   trail, failed, events, arg, hist>>

\* --------------------------------------------------- ShoppingListGenerator
\* faulty variant: the name is stripped but not lower-cased
normalize_ingredient_name_cased(name) == strip(name)

\* _normalize_ingredient_name: name.lower().strip()
normalize_ingredient_name(name) == strip(lower(name))

\* defaultdict(list): shopping_list[key].append(quantity)
Appended(d, key, quantity) ==
    IF key \in DOMAIN d
    THEN [d EXCEPT ![key] = Append(@, quantity)]
    ELSE [k \in DOMAIN d \cup {key} |->
            IF k = key THEN <<quantity>> ELSE d[k]]

\* the inner loop of generate over recipe.ingredients
RECURSIVE IngredientLoop(_, _)
IngredientLoop(ings, d) ==
    IF ings = <<>> THEN d
    ELSE IngredientLoop(Tail(ings),
                        Appended(d, normalize_ingredient_name(Head(ings).name),
                                 Head(ings).quantity))

\* the outer loop of generate over recipes, from the dict d
RECURSIVE RecipeLoop(_, _)
RecipeLoop(rs, d) ==
    IF rs = <<>> THEN d
    ELSE RecipeLoop(Tail(rs), IngredientLoop(Head(rs).ingredients, d))

EmptyDict == [k \in {} |-> <<>>]

\* ShoppingListGenerator.generate(recipes)
shopping_list(rs) == RecipeLoop(rs, EmptyDict)

\* the recipes the shell selects by position: positions out of range are
\* skipped
Selected(sel) ==
    LET valid == SelectSeq(sel, LAMBDA i : i \in 1..Len(recipes))
    IN [k \in 1..Len(valid) |-> recipes[valid[k]]]

Selections == { <<>>, <<1>>, <<2, 1>>, <<1, 3, 1>> }

generate(sel) ==
    /\ pc = "idle"
    /\ Reads(Call("generate", "", FALSE, None), [recipes |-> Selected(sel)],
             [list |-> shopping_list(Selected(sel))])

\* sorted(shopping_list.items()): the keys in ascending order
RECURSIVE SortedKeys(_)
SortedKeys(keys) ==
    IF keys = {} THEN <<>>
    ELSE LET least == CHOOSE a \in keys : \A b \in keys : a = b \/ StrLess(a, b)
         IN <<least>> \o SortedKeys(keys \ {least})

NL == "\n"
Header == <<"S", "h", "o", "p", "p", "i", "n", "g", SP, "L", "i", "s", "t", ":">>
EmptyMarker == <<"(", "e", "m", "p", "t", "y", ")">>

\* one line of format: "- {display_name}: {quantities_str}"
Line(display_name, quantities) ==
    <<"-", SP>> \o display_name \o <<":", SP>> \o join(<<",", SP>>, quantities)

\* ShoppingListGenerator.format(shopping_list)
format_text(d) ==
    IF DOMAIN d = {} THEN join(<<NL>>, <<Header, EmptyMarker>>)
    ELSE LET keys == SortedKeys(DOMAIN d)
         IN join(<<NL>>,
                 <<Header>> \o [k \in 1..Len(keys) |->
                                  Line(title(keys[k]), d[keys[k]])])

\* do_shopping hands the list generate returned to format
format ==
    /\ pc = "returned"
    /\ ret.op = "generate"
    /\ "text" \notin DOMAIN out
    /\ out' = [list |-> out.list, text |-> format_text(out.list)]
    /\ UNCHANGED <<files, recipes, pc, depth, nid, call, ret, before, old,
                   loadRaised, trail, failed, events, arg, named, hist, shell>>

\* ------------------- RecipeManager.generate_shopping_list and its format
\* the inner loop of generate_shopping_list over recipe.ingredients: the
\* key is ingredient.name as it is
RECURSIVE NamedLoop(_, _)
NamedLoop(ings, d) ==
    IF ings = <<>> THEN d
    ELSE NamedLoop(Tail(ings),
                   Appended(d, Head(ings).name, Head(ings).quantity))

\* the loop of generate_shopping_list over recipe_ids, from the dict d: an
\* id that get_recipe_by_id does not find is skipped
RECURSIVE IdLoop(_, _, _)
IdLoop(rs, ids, d) ==
    IF ids = <<>> THEN d
    ELSE IF get_recipe_by_id(rs, Head(ids)) = 0 THEN IdLoop(rs, Tail(ids), d)
    ELSE IdLoop(rs, Tail(ids),
                NamedLoop(rs[get_recipe_by_id(rs, Head(ids))].ingredients, d))

\* the lists of ids passed: the ids of the recipes at the positions of sel,
\* and an unknown id for a position out of range
IdLists ==
    { [k \in 1..Len(sel) |->
          IF sel[k] \in 1..Len(recipes) THEN recipes[sel[k]].id ELSE "nope"] :
      sel \in Selections }

generate_shopping_list(ids) ==
    /\ pc = "idle"
    /\ Reads(Call("generate_shopping_list", "", FALSE, None), [ids |-> ids],
             [list |-> IdLoop(recipes, ids, EmptyDict)])

\* RecipeManager.format_shopping_list(shopping_list): the names are written
\* as they are
manager_text(d) ==
    IF DOMAIN d = {} THEN join(<<NL>>, <<Header, EmptyMarker>>)
    ELSE LET keys == SortedKeys(DOMAIN d)
         IN join(<<NL>>,
                 <<Header>> \o [k \in 1..Len(keys) |->
                                  Line(keys[k], d[keys[k]])])

\* the caller hands the list generate_shopping_list returned to
\* format_shopping_list
format_shopping_list ==
    /\ pc = "returned"
    /\ ret.op = "generate_shopping_list"
    /\ "text" \notin DOMAIN out
    /\ out' = [list |-> out.list, text |-> manager_text(out.list)]
    /\ UNCHANGED <<files, recipes, pc, depth, nid, call, ret, before, old,
                   loadRaised, trail, failed, events, arg, named, hist, shell>>

\* ------------------------------------------------ JSONStorage.save_recipes
\* faulty variant: the exception of save_recipes is swallowed
SaveOutcome_swallowed(storageRaised) == "ok"

\* _save_recipes: any exception of save_recipes is raised as RuntimeError
SaveOutcome(storageRaised) == IF storageRaised THEN "RuntimeError" ELSE "ok"

\* save_recipes has returned or raised, and so has the manager call
SaveEnds(storageRaised, stages) ==
    /\ ret' = Ret(call, SaveOutcome(storageRaised))
    /\ trail' = trail \o stages
    /\ failed' = IF storageRaised THEN failed + 1 ELSE failed
    /\ hist' = IF hist = <<>> THEN hist
               ELSE [hist EXCEPT ![1].ok = ~storageRaised]
    /\ call' = NoCall
    /\ pc' = "returned"

\* "if self.file_path.exists(): shutil.copy(self.file_path, backup_path)";
\* a failed copy is only reported
SaveBackup ==
    /\ pc = "save_backup"
    /\ \/ /\ Fault                    \* exists() fails: "except IOError"
          /\ SaveEnds(TRUE, <<"Failed">>)
          /\ UNCHANGED backup
       \/ /\ IF Exists(primary)
             THEN \E outcome \in CopyOutcomes(primary) :
                     /\ IF CopyDone(outcome) THEN NoFault ELSE Fault
                     /\ backup' = Copied(primary, backup, outcome)
             ELSE UNCHANGED <<backup, events>>
          /\ pc' = "save_write"
          /\ trail' = Append(trail, "BackingUp")
          /\ UNCHANGED <<call, ret, failed, hist>>
    /\ UNCHANGED <<primary, temp, recipes, depth, nid, before, old,
                   loadRaised, arg, out, named, shell>>

\* open(temp, 'w') and json.dump: an OSError goes to "except IOError", the
\* UnicodeEncodeError of an unencodable string to "except Exception"
SaveWrite ==
    /\ pc = "save_write"
    /\ \/ /\ UNCHANGED temp             \* open() fails
          /\ Fault
          /\ SaveEnds(TRUE, <<"Failed">>)
       \/ /\ temp' \in Cuts(Dump(recipes))   \* a write fails
          /\ Fault
          /\ SaveEnds(TRUE, <<"Failed">>)
       \/ /\ AllEncodable(recipes)
          /\ NoFault
          /\ temp' = Dump(recipes)
          /\ pc' = "save_rename"
          /\ trail' = Append(trail, "Writing")
          /\ UNCHANGED <<call, ret, failed, hist>>
       \/ /\ ~AllEncodable(recipes)
          /\ NoFault
          /\ temp' = Truncated
          /\ pc' = "save_restore"
          /\ trail' = Append(trail, "Writing")
          /\ UNCHANGED <<call, ret, failed, hist>>
    /\ UNCHANGED <<primary, backup, recipes, depth, nid, before, old,
                   loadRaised, arg, out, named, shell>>

\* faulty variant: the rename is not carried out
Replaced_kept(src, target) == target

\* the target of Path.replace(target) afterwards
Replaced(src, target) == src

\* "self.temp_file_path.replace(self.file_path)"; its OSError goes to
\* "except IOError"
SaveRename ==
    /\ pc = "save_rename"
    /\ \/ /\ primary' = Replaced(temp, primary)
          /\ temp' = Absent
          /\ NoFault
          /\ SaveEnds(FALSE, <<"Committing", "Done">>)
       \/ /\ UNCHANGED <<primary, temp>>
          /\ Fault
          /\ SaveEnds(TRUE, <<"Failed">>)
    /\ UNCHANGED <<backup, recipes, depth, nid, before, old, loadRaised,
                   arg, out, named, shell>>

\* "except Exception": copy the backup over the primary file when both
\* exist, ignore a failure of the copy, raise again
SaveRestore ==
    /\ pc = "save_restore"
    /\ \/ /\ Fault                    \* exists() fails inside the handler
          /\ UNCHANGED primary
          /\ SaveEnds(TRUE, <<"Failed">>)
       \/ /\ IF Exists(primary) /\ Exists(backup)
             THEN \E outcome \in CopyOutcomes(backup) :
                     /\ IF CopyDone(outcome) THEN NoFault ELSE Fault
                     /\ primary' = Copied(backup, primary, outcome)
             ELSE UNCHANGED <<primary, events>>
          /\ SaveEnds(TRUE, IF Exists(primary) /\ Exists(backup)
                            THEN <<"RestoreFromBackup", "Failed">>
                            ELSE <<"Failed">>)
    /\ UNCHANGED <<backup, temp, recipes, depth, nid, before, old, loadRaised,
                   arg, out, named, shell>>

\* ------------------------------------------------------------------ caller
\* the caller has the result (a value or an exception) of the constructor or
\* of a manager call and goes on to its next command
Continue ==
    /\ pc = "returned"
    /\ pc' = "idle"
    /\ ret' = NoRet
    /\ before' = <<>>
    /\ old' = Absent
    /\ trail' = <<>>
    /\ arg' = NoArg
    /\ out' = NoOut
    /\ shell' = [NoShell EXCEPT !.shown = shell.shown]
    /\ UNCHANGED <<files, recipes, depth, nid, call, loadRaised, failed, events,
                   named, hist>>

\* ------------------------------------------------------------- environment
\* the process exits or is killed, at any point, and is launched again
Restart ==
    /\ pc # "start"
    /\ Event
    /\ pc' = "start"
    /\ recipes' = <<>>
    /\ call' = NoCall
    /\ ret' = NoRet
    /\ depth' = 0
    /\ before' = <<>>
    /\ old' = Absent
    /\ trail' = <<>>
    /\ loadRaised' = "none"
    /\ failed' = 0
    /\ arg' = NoArg
    /\ out' = NoOut
    /\ named' = <<>>
    /\ hist' = <<>>
    /\ shell' = NoShell
    /\ UNCHANGED <<files, nid>>

\* the primary file is damaged while no process runs
Corrupt ==
    /\ pc = "start"
    /\ Exists(primary)
    /\ Event
    /\ primary' \in {Garbage, Undecodable}
    /\ primary' # primary
    /\ UNCHANGED <<backup, temp, recipes, pc, depth, nid, call, ret, before,
                   old, loadRaised, trail, failed, arg, out, named, hist,
                   shell>>

Next ==
    \/ Construct
    \/ LoadRead
    \/ LoadRestore
    \/ \E a \in AddInputs : add_recipe(a) /\ UNCHANGED shell
    \/ \E id \in IdInputs : toggle_favorite(id) /\ UNCHANGED shell
    \/ \E id \in IdInputs, u \in UpdateInputs :
          update_recipe(id, u) /\ UNCHANGED shell
    \/ \E id \in IdInputs : delete_recipe(id) /\ UNCHANGED shell
    \/ SaveBackup
    \/ SaveWrite
    \/ SaveRename
    \/ SaveRestore
    \/ Continue
    \/ Restart
    \/ Corrupt

Spec == Init /\ [][Next]_vars

\* ---------------------------------------------------------- the read calls
\* search_recipes and generate change nothing: they are run on every
\* collection of up to MaxLoaded recipes a manager can have loaded
P1 == Recipe("p1", <<"a", "B">>, <<>>, <<>>, FALSE, None)
P2 == Recipe("p2", <<"b">>,
             <<Ingredient(<<"T">>, <<"2">>),
               Ingredient(<<SP, "t">>, <<"1", SP>>),
               Ingredient(<<"O">>, <<"1">>)>>,
             <<"s">>, TRUE, Some(<<"c">>))
P3 == Recipe("p3", <<"x">>, <<Ingredient(<<"T", "b">>, <<"3">>)>>, <<>>,
             FALSE, None)
P4 == Recipe("p4", <<SP>>, <<Ingredient(<<"t", SP>>, <<>>)>>, <<>>, TRUE,
             Some(<<>>))
P5 == Recipe("p5", <<"r">>,
             <<Ingredient(<<"T", "o", "m", "a", "t", "o">>, <<"2">>),
               Ingredient(<<"t", "o", "m", "a", "t", "o">>,
                          <<SP, "2", "0", "0", "g", SP>>)>>,
             <<>>, FALSE, None)
P6 == Recipe("p6", <<"s">>,
             <<Ingredient(<<"O", "n", "i", "o", "n">>, <<"1">>)>>,
             <<>>, TRUE, None)
Pool == {P1, P2, P3, P4, P5, P6}

\* the collections of distinct recipes of the pool
Collections ==
    UNION { { rs \in [1..n -> Pool] :
                \A i, j \in 1..n : i # j => rs[i] # rs[j] } : n \in 0..MaxLoaded }

\* a manager constructed on the file of such a collection, at its prompt
InitRead ==
    /\ recipes \in Collections
    /\ primary = Dump(recipes)
    /\ backup = Absent
    /\ temp = Absent
    /\ pc = "idle"
    /\ depth = 0
    /\ nid = 0
    /\ call = NoCall
    /\ ret = NoRet
    /\ before = <<>>
    /\ old = Absent
    /\ loadRaised = "none"
    /\ trail = <<>>
    /\ failed = 0
    /\ events = 0
    /\ arg = NoArg
    /\ out = NoOut
    /\ named = [k \in 1..Len(recipes) |-> FALSE]
    /\ hist = <<>>
    /\ shell = NoShell

NextRead ==
    \/ \E term \in SearchInputs : search_recipes(term) /\ UNCHANGED shell
    \/ get_all_recipes /\ UNCHANGED shell
    \/ \E id \in IdInputs : get_by_id(id) /\ UNCHANGED shell
    \/ get_favorite_recipes /\ UNCHANGED shell
    \/ edit_returned_list /\ UNCHANGED shell
    \/ \E sel \in Selections : generate(sel) /\ UNCHANGED shell
    \/ format
    \/ \E ids \in IdLists : generate_shopping_list(ids) /\ UNCHANGED shell
    \/ format_shopping_list
    \/ Continue

SpecRead == InitRead /\ [][NextRead]_vars

\* --------------------------------------------------------------- the shell
\* RecipeBoxCLI: its commands, run on a manager that has loaded one of a
\* few collections
ShellCollections == { <<>>, <<P6, P1>>, <<P1, P2, P3>> }

\* the numeric arguments typed
Indexes == 1..(MaxLoaded + 1)

\* the ids of the recipes at the positions ps
IdsAt(ps) == [k \in 1..Len(ps) |-> recipes[ps[k]].id]

\* the shell displays the list a query returned
Displays(c, a, hits) ==
    /\ pc = "idle"
    /\ Reads(c, a, [hits |-> hits])
    /\ shell' = [shown |-> IdsAt(hits), cmd |-> c.op, index |-> 0,
                 target |-> None]

do_list == Displays(Call("list", "", FALSE, None), NoArg, all_recipes(recipes))

do_favorites ==
    Displays(Call("favorites", "", FALSE, None), NoArg,
             favorite_recipes(recipes))

\* the shell refuses an empty term before it calls the manager
do_search(term) ==
    /\ term # <<>>
    /\ Displays(Call("search", "", FALSE, None), [term |-> term],
                matching_recipes(recipes, strip(lower(term)), 1))

\* "index = int(arg) - 1; if 0 <= index < len(recipes): recipe =
\* recipes[index]" on recipes = self.manager.get_all_recipes(): the id of the
\* recipe a numeric argument resolves to, None when it is out of range
Resolved(n) == IF n \in 1..Len(recipes) THEN Some(recipes[n].id) ELSE None

\* the shell is running cmd on its argument n
Runs(cmd, n) ==
    shell' = [shell EXCEPT !.cmd = cmd, !.index = n, !.target = Resolved(n)]

\* a command that returns before it calls the manager
Refuses(cmd) ==
    /\ Ends(Call(cmd, "", FALSE, None), "ok")
    /\ UNCHANGED <<nid, arg, hist>>

do_view(n) ==
    /\ pc = "idle"
    /\ Runs("view", n)
    /\ IF Resolved(n) = None
       THEN Refuses("view")
       ELSE Reads(Call("view", Get(Resolved(n)), FALSE, None), NoArg,
                  [hits |-> <<n>>])

do_toggle(n) ==
    /\ pc = "idle"
    /\ Runs("toggle", n)
    /\ IF Resolved(n) = None
       THEN Refuses("toggle")
       ELSE toggle_favorite(Get(Resolved(n)))

\* confirm: the answer to "Are you sure you want to delete"
do_delete(n, confirm) ==
    /\ pc = "idle"
    /\ Runs("delete", n)
    /\ IF Resolved(n) = None \/ ~confirm
       THEN Refuses("delete")
       ELSE delete_recipe(Get(Resolved(n)))

\* what do_add passes on: a name and a category stripped and not empty, at
\* least one ingredient
ShellAddInputs ==
    { [name |-> <<"B">>, ingredients |-> <<Ingredient(<<"T">>, <<"2">>)>>,
       steps |-> <<"s">>, favorite |-> TRUE, category |-> None],
      [name |-> <<SUR>>, ingredients |-> <<Ingredient(<<"O">>, <<"1">>)>>,
       steps |-> <<>>, favorite |-> FALSE, category |-> Some(<<"c">>)] }

do_add(a) ==
    /\ shell' = [shell EXCEPT !.cmd = "add", !.index = 0, !.target = None]
    /\ add_recipe(a)

\* the exception of a manager call is caught by no handler of the command
\* (do_add has "except Exception", do_toggle and do_delete have none)
Uncaught ==
    /\ pc = "returned"
    /\ ret.outcome = "RuntimeError"
    /\ shell.cmd \in {"toggle", "delete"}

\* cmdloop prompts for the next command
Prompt == ~Uncaught /\ Continue

\* the exception leaves cmdloop; main prints it and calls sys.exit(1)
Exit ==
    /\ Uncaught
    /\ pc' = "exited"
    /\ UNCHANGED <<files, recipes, depth, nid, call, ret, before, old,
                   loadRaised, trail, failed, events, arg, out, named, hist,
                   shell>>

InitShell ==
    /\ recipes \in ShellCollections
    /\ primary = Dump(recipes)
    /\ backup = Absent
    /\ temp = Absent
    /\ pc = "idle"
    /\ depth = 0
    /\ nid = 0
    /\ call = NoCall
    /\ ret = NoRet
    /\ before = <<>>
    /\ old = Absent
    /\ loadRaised = "none"
    /\ trail = <<>>
    /\ failed = 0
    /\ events = 0
    /\ arg = NoArg
    /\ out = NoOut
    /\ named = [k \in 1..Len(recipes) |-> FALSE]
    /\ hist = <<>>
    /\ shell = NoShell

NextShell ==
    \/ do_list
    \/ do_favorites
    \/ \E term \in SearchInputs : do_search(term)
    \/ \E n \in Indexes : do_view(n)
    \/ \E n \in Indexes : do_toggle(n)
    \/ \E n \in Indexes, confirm \in BOOLEAN : do_delete(n, confirm)
    \/ \E a \in ShellAddInputs : do_add(a)
    \/ SaveBackup
    \/ SaveWrite
    \/ SaveRename
    \/ SaveRestore
    \/ Prompt
    \/ Exit

SpecShell == InitShell /\ [][NextShell]_vars

\* ================================================================== claims
Returned == pc = "returned"
InSave == pc \in {"save_backup", "save_write", "save_rename", "save_restore"}

\* the last call reached _save_recipes
Saved ==
    /\ ret.outcome \in {"ok", "RuntimeError"}
    /\ ret.op \in {"add", "toggle", "update"} \/ (ret.op = "delete" /\ ret.flag)
ReturnedOk == Returned /\ Saved /\ ret.outcome = "ok"
Raised == Returned /\ Saved /\ ret.outcome = "RuntimeError"
Last(t) == t[Len(t)]

\* the position in rs of the first recipe with this id (0 if none)
FirstWith(rs, id) ==
    IF \E k \in 1..Len(rs) : rs[k].id = id
    THEN CHOOSE k \in 1..Len(rs) :
            rs[k].id = id /\ \A j \in 1..(k - 1) : rs[j].id # id
    ELSE 0

\* the file is a complete document as save_recipes writes it (an array whose
\* records have every field) and the collection rs has a recipe for the id
\* of each of its records
SavedDocumentOf(f, rs) ==
    /\ f.kind = "json"
    /\ f.shape = "array"
    /\ LoadJson(f, 0).raised = "none"
    /\ f = Dump(LoadJson(f, 0).out)
    /\ \A k \in 1..Len(f.recs) : f.recs[k].id \in Ids(rs)

\* C1 as claimed: whenever add, toggleFavorite, update or delete returns
\* normally, the primary file stores the in-memory collection: the same
\* records with the same field values in the same order (stated for a
\* primary file that is a complete document none of whose records is
\* missing from memory).
C1_PrimaryEqualsMemoryOnEveryReturn ==
    (/\ Returned
     /\ ret.op \in {"add", "toggle", "update", "delete"}
     /\ ret.outcome = "ok"
     /\ SavedDocumentOf(primary, recipes))
    => primary = Dump(recipes)

\* C1 amended: whenever add, toggleFavorite, update or delete has changed
\* the collection (a delete that found its recipe) and returned normally,
\* the primary file is the complete document of the in-memory collection:
\* the same records with the same field values in the same order.
C1_PrimaryEqualsMemoryOnReturn == ReturnedOk => primary = Dump(recipes)

\* a call returned normally after an earlier call of the run failed to save
C1_Witness == ReturnedOk /\ failed >= 1 /\ Len(recipes) >= 2

\* C2 as claimed: when the save inside a mutating call fails, the call
\* raises and the in-memory collection is what it was before the call.
C2_MemoryUnchangedOnFailure == Raised => recipes = before

\* the change the last call made to the collection is in memory
KeptChange ==
    LET i == FirstWith(before, ret.rid)
    IN CASE ret.op = "add" ->
              /\ Len(recipes) = Len(before) + 1
              /\ SubSeq(recipes, 1, Len(before)) = before
              /\ Last(recipes).id = ret.rid
              /\ Last(recipes).name = strip(Get(ret.name))
         [] ret.op = "toggle" ->
              /\ i # 0
              /\ Len(recipes) = Len(before)
              /\ recipes[i].favorite = ~before[i].favorite
              /\ ret.flag = recipes[i].favorite
              /\ \A k \in 1..Len(before) : k # i => recipes[k] = before[k]
         [] ret.op = "update" ->
              /\ i # 0
              /\ Len(recipes) = Len(before)
              /\ recipes[i].id = before[i].id
              /\ ret.name # None => recipes[i].name = strip(Get(ret.name))
              /\ \A k \in 1..Len(before) : k # i => recipes[k] = before[k]
         [] ret.op = "delete" ->
              /\ i # 0
              /\ Len(recipes) = Len(before) - 1
              /\ \A k \in 1..Len(recipes) :
                    recipes[k] = IF k < i THEN before[k] ELSE before[k + 1]
         [] OTHER -> FALSE

\* C2 amended: when the save inside a mutating call fails, the call raises
\* RuntimeError and the in-memory collection keeps the change the call made
\* (the recipe stays added, flipped, updated or removed).
C2_MemoryKeepsChangeOnFailure == Raised => KeptChange

\* a delete whose save failed, on a collection of two recipes
C2_Witness ==
    /\ Raised
    /\ ret.op = "delete"
    /\ Len(before) = 2
    /\ recipes # before

\* C3: a mutating call that reached the save returns normally exactly when
\* the save went through to the rename, and raises exactly when the save
\* failed.
C3_WriteFailureNotSwallowed ==
    (Returned /\ Saved) =>
        /\ ret.outcome = "ok" <=> Last(trail) = "Done"
        /\ ret.outcome = "RuntimeError" <=> Last(trail) = "Failed"

\* a toggle whose save failed has raised
C3_Witness == Raised /\ ret.op = "toggle" /\ Last(trail) = "Failed"

\* C4 as claimed: after a save that started on a complete document has
\* raised, the primary file is what it was when that save started.
C4_PrimaryIntactAfterFailedSave ==
    (Raised /\ old.kind = "json") => primary = old

\* C5 as claimed: during a save that started on no file or on a complete
\* document, and when that save has ended, the primary file is absent, the
\* complete document it held before the save, or the complete new document.
C5_PrimaryNeverPartial ==
    ((InSave \/ (Returned /\ Saved)) /\ old.kind # "malformed") =>
        \/ primary = Absent
        \/ primary = old
        \/ primary = Dump(recipes)

\* C6: after a successful save, load_recipes on the primary file returns the
\* collection that was saved: same length and order, and for each recipe the
\* same id, name, ingredients, steps, favorite flag and category.
C6_SaveLoadRoundTrip ==
    ReturnedOk =>
        /\ primary.kind = "json"
        /\ LoadJson(primary, nid) =
              [out |-> recipes, nid |-> nid, raised |-> "none"]

\* a saved collection with a favorite, an absent category, a category and
\* ingredients
C6_Witness ==
    /\ ReturnedOk
    /\ \E k \in 1..Len(recipes) : recipes[k].category = None
    /\ \E k \in 1..Len(recipes) :
          /\ recipes[k].category # None
          /\ recipes[k].ingredients # <<>>
          /\ recipes[k].favorite

\* the last load found malformed JSON in the primary file
LoadedMalformed ==
    /\ Returned
    /\ ret.op = "init"
    /\ old.kind = "malformed"
    /\ trail[1] # "IOError"
\* no file operation of the last load failed
NoLoadFault ==
    \A k \in 1..Len(trail) : trail[k] \notin {"IOError", "CopyFailed"}
ValidFile(f) ==
    f.kind = "json" /\ LoadJson(f, 0).raised = "none"

\* C7 as claimed: when the primary file holds malformed JSON, load_recipes
\* does not raise; with a valid backup file (and no failure of the file
\* operations of the restore) the primary file ends equal to the backup and
\* the result is the backup's recipes; without a backup file the result is
\* empty.
C7_CorruptionRecovery ==
    LoadedMalformed =>
        /\ loadRaised = "none"
        /\ (ValidFile(backup) /\ NoLoadFault) =>
              /\ primary = backup
              /\ \E n \in 0..nid : recipes = LoadJson(backup, n).out
        /\ ~Exists(backup) => recipes = <<>> /\ primary = old

\* C8 as claimed: when reading the primary file fails with an I/O error, the
\* manager is not constructed on an empty collection.
C8_ReadFailureIsFatal == ~(Returned /\ loadRaised = "IOError")

\* C9 as claimed: no two recipes of the manager's collection have the same
\* id.
C9_IdsUnique ==
    pc \notin {"start", "load_read", "load_restore"} =>
        \A i, j \in 1..Len(recipes) : i # j => recipes[i].id # recipes[j].id

Blank(s) == \A k \in 1..Len(s) : s[k] = SP

\* C10: a call of add, or of update with a name, whose name is empty or
\* whitespace-only ends with ValueError in the step that made the call, and
\* that step changes neither the collection nor any file and starts no save.
C10_EmptyNameRejected ==
    [][(/\ ret' # ret
        /\ ret'.op \in {"add", "update"}
        /\ ret'.name # None
        /\ Blank(Get(ret'.name)))
       => /\ ret'.outcome \in {"ValueError_name", "ValueError_notfound"}
          /\ ret'.op = "add" => ret'.outcome = "ValueError_name"
          /\ recipes' = recipes
          /\ files' = files
          /\ events' = events
          /\ trail' = trail
          /\ pc' = "returned"]_vars

\* add(" ") was rejected on a collection that is not empty
C10_Witness ==
    /\ Returned
    /\ ret.op = "add"
    /\ ret.outcome = "ValueError_name"
    /\ ret.name = Some(<<SP>>)
    /\ recipes # <<>>

\* ----------------------------------------------------------------- C11..C20
\* a str that is not empty and neither starts nor ends with whitespace
Clean(s) == s # <<>> /\ ~IsSpace(s[1]) /\ ~IsSpace(s[Len(s)])

\* the recipe the last call created or changed
Subject == recipes[FirstWith(recipes, ret.rid)]

\* C11: every recipe that add created or update renamed, in this run of the
\* manager, has a name that is not empty and has no leading or trailing
\* whitespace (recipes that were only loaded are not concerned).
C11_NamesTrimmed ==
    \A k \in 1..Len(named) : named[k] => Clean(recipes[k].name)

\* add(" B ") created a recipe and update(name = " b") renamed the loaded
\* recipe whose name is whitespace
C11_Witness ==
    /\ pc = "idle"
    /\ \E k \in 1..Len(named) : named[k] /\ recipes[k].name = <<"B">>
    /\ \E k \in 1..Len(named) :
          named[k] /\ recipes[k].id = "f4" /\ recipes[k].name = <<"b">>

\* C12 as claimed: after an add or update that supplied a category, the
\* category of the recipe is absent or a string that is not blank, and it is
\* absent when the supplied category was empty or whitespace-only.
C12_CategoryAbsentOrNonBlank ==
    (/\ Returned
     /\ Saved
     /\ ret.op \in {"add", "update"}
     /\ arg.category # None)
    => /\ \A c \in Subject.category : ~Blank(c)
       /\ Blank(Get(arg.category)) => Subject.category = None

\* C13: an add that returns has appended exactly one recipe, built from its
\* arguments, under an id no earlier recipe has; the earlier recipes are
\* unchanged and in place; get_recipe_by_id of the returned id finds the
\* appended recipe.
C13_AddAppendsFresh ==
    (Returned /\ ret.op = "add" /\ ret.outcome = "ok") =>
        /\ Len(recipes) = Len(before) + 1
        /\ SubSeq(recipes, 1, Len(before)) = before
        /\ ret.rid \notin Ids(before)
        /\ get_recipe_by_id(recipes, ret.rid) = Len(recipes)
        /\ Last(recipes).id = ret.rid
        /\ Last(recipes).ingredients = arg.ingredients
        /\ Last(recipes).steps = arg.steps
        /\ Last(recipes).favorite = arg.favorite

\* an add with ingredients returned on a collection loaded with a
\* generated id and a repeated id
C13_Witness ==
    /\ Returned
    /\ ret.op = "add"
    /\ ret.outcome = "ok"
    /\ arg.ingredients # <<>>
    /\ Len(before) = 2
    /\ before[1].id = before[2].id

\* C14: a toggle that returns gives the negation of the favorite flag the
\* recipe had, and that is the recipe's new flag; after two consecutive
\* toggles of the same id the collection is what it was before the first.
C14_ToggleInvolution ==
    (Returned /\ ret.op = "toggle" /\ Saved) =>
        LET i == FirstWith(before, ret.rid)
        IN /\ i # 0
           /\ ret.flag = ~before[i].favorite
           /\ recipes[i].favorite = ret.flag
           /\ Len(hist) = 2 => recipes = hist[2].before

\* the second of two consecutive toggles of one id has returned, on a
\* collection of two recipes
C14_Witness ==
    /\ Returned
    /\ ret.op = "toggle"
    /\ ret.outcome = "ok"
    /\ Len(hist) = 2
    /\ hist[2].ok
    /\ Len(recipes) = 2
    /\ ret.flag = FALSE

\* C15 as claimed: a delete of an id that is present removes exactly one
\* entry and keeps the others in order; a delete that follows a delete of
\* the same id which returned true returns false in the same step, without
\* an error, and changes neither the collection nor a file.
C15_DeleteTwice ==
    [][/\ (pc = "idle" /\ call'.op = "delete") =>
             /\ Len(recipes') = Len(recipes) - 1
             /\ \E i \in 1..Len(recipes) :
                   /\ recipes[i].id = call'.rid
                   /\ recipes' = [k \in 1..Len(recipes') |->
                                    IF k < i THEN recipes[k]
                                    ELSE recipes[k + 1]]
       /\ (/\ pc = "idle"
           /\ Len(hist') = 2
           /\ hist'[1].op = "delete"
           /\ hist'[2].ok
           /\ hist'[2].flag)
          => /\ pc' = "returned"
             /\ ret'.outcome = "ok"
             /\ ~ret'.flag
             /\ recipes' = recipes
             /\ files' = files]_vars

\* hay contains needle when letter case is ignored
ContainsIgnoringCase(hay, needle) ==
    \E k \in 1..(Len(hay) - Len(needle) + 1) :
        \A j \in 1..Len(needle) :
            LowerChar(hay[k + j - 1]) = LowerChar(needle[j])

\* the name of recipe r, or the name of one of its ingredients, contains term
Hit(r, term) ==
    \/ ContainsIgnoringCase(r.name, term)
    \/ \E k \in 1..Len(r.ingredients) :
          ContainsIgnoringCase(r.ingredients[k].name, term)

SearchReturned == Returned /\ ret.op = "search"

\* C16 as claimed: for a term that is not empty, search returns the recipes
\* whose name or one of whose ingredient names contains the term, letter
\* case ignored: those and no others, in collection order, each once.
C16_SearchExactMatches ==
    (SearchReturned /\ arg.term # <<>>) =>
        /\ \A k \in 1..Len(recipes) :
              Hit(recipes[k], arg.term)
                  <=> \E n \in 1..Len(out.hits) : out.hits[n] = k
        /\ \A m, n \in 1..Len(out.hits) : m < n => out.hits[m] < out.hits[n]

\* C17 as claimed: search with a term that is empty, or empty once trimmed,
\* returns the empty sequence.
C17_BlankTermFindsNothing ==
    (SearchReturned /\ Blank(arg.term)) => out.hits = <<>>

\* C18: an update that returns has changed, in the first recipe with the
\* id, the supplied fields to the supplied values (name and category
\* trimmed) and nothing else: its id, its position, its other fields and
\* every other recipe are what they were.
C18_UpdateFrame ==
    (Returned /\ ret.op = "update" /\ ret.outcome = "ok") =>
        LET i == FirstWith(before, ret.rid)
            was == before[i]
            now == recipes[i]
        IN /\ i # 0
           /\ Len(recipes) = Len(before)
           /\ \A k \in 1..Len(before) : k # i => recipes[k] = before[k]
           /\ now.id = was.id
           /\ now.name = IF arg.name = None THEN was.name
                         ELSE strip(Get(arg.name))
           /\ now.ingredients = IF arg.ingredients = None THEN was.ingredients
                                ELSE Get(arg.ingredients)
           /\ now.steps = IF arg.steps = None THEN was.steps
                          ELSE Get(arg.steps)
           /\ now.favorite = IF arg.favorite = None THEN was.favorite
                             ELSE Get(arg.favorite)
           /\ arg.category = None => now.category = was.category

\* an update of ingredients and steps returned for the second of two
\* recipes, a favorite whose name and flag were not supplied
C18_Witness ==
    /\ Returned
    /\ ret.op = "update"
    /\ ret.outcome = "ok"
    /\ arg.name = None
    /\ arg.favorite = None
    /\ arg.ingredients # None
    /\ Len(before) = 2
    /\ before[2].id = ret.rid
    /\ before[2].favorite
    /\ recipes # before

\* C19: toggle_favorite or update_recipe called with an id no recipe has
\* ends in that step with the not-found ValueError; the step changes
\* neither the collection nor a file and starts no save.
C19_NotFoundChangesNothing ==
    [][(/\ pc = "idle"
        /\ ret' # ret
        /\ ret'.op \in {"toggle", "update"}
        /\ ret'.rid \notin Ids(recipes))
       => /\ ret'.outcome = "ValueError_notfound"
          /\ pc' = "returned"
          /\ recipes' = recipes
          /\ files' = files
          /\ events' = events
          /\ trail' = trail
          /\ call' = call]_vars

\* toggle_favorite("nope") was refused on a collection that is not empty
C19_Witness ==
    /\ Returned
    /\ ret.op = "toggle"
    /\ ret.rid = "nope"
    /\ ret.outcome = "ValueError_notfound"
    /\ recipes # <<>>

\* the ingredients of the recipes rs, in the order supplied
RECURSIVE Flat(_)
Flat(rs) == IF rs = <<>> THEN <<>> ELSE Head(rs).ingredients \o Flat(Tail(rs))

\* the quantities, in order, of the ingredients whose trimmed lower-case
\* name is key
QuantitiesOf(ings, key) ==
    LET sel == SelectSeq(ings, LAMBDA g : strip(lower(g.name)) = key)
    IN [k \in 1..Len(sel) |-> sel[k].quantity]

\* C20: generate returns a mapping whose keys are the lower-cased, trimmed
\* names of the ingredients of the recipes supplied, and whose value for a
\* key is the sequence of the quantities, as they are, of the ingredients
\* with that key, in the order supplied; the call changes neither the
\* collection nor a file.
C20_GenerateAggregates ==
    [][(ret' # ret /\ ret'.op = "generate") =>
          LET ings == Flat(arg'.recipes)
          IN /\ DOMAIN out'.list =
                   { strip(lower(ings[k].name)) : k \in 1..Len(ings) }
             /\ \A key \in DOMAIN out'.list :
                   out'.list[key] = QuantitiesOf(ings, key)
             /\ recipes' = recipes
             /\ files' = files]_vars

\* a list made from three recipes, one of them supplied twice, in which one
\* key collects the quantities of differently written names
C20_Witness ==
    /\ Returned
    /\ ret.op = "generate"
    /\ Len(arg.recipes) = 3
    /\ arg.recipes[1] = arg.recipes[3]
    /\ <<"t">> \in DOMAIN out.list
    /\ Len(out.list[<<"t">>]) >= 3

\* ----------------------------------------------------------------- C21..C30
K_tomato == <<"t", "o", "m", "a", "t", "o">>
K_onion == <<"o", "n", "i", "o", "n">>
Q_200g == <<"2", "0", "0", "g">>
Q_200g_padded == <<SP>> \o Q_200g \o <<SP>>
L_onion == <<"-", SP, "O", "n", "i", "o", "n", ":", SP, "1">>
L_tomato == <<"-", SP, "T", "o", "m", "a", "t", "o", ":", SP, "2", ",", SP>>

\* generate was called on recipes whose ingredients are ("Tomato","2"),
\* ("tomato"," 200g "), ("Onion","1") in that order, and format on its result
ExampleGiven ==
    /\ Returned
    /\ ret.op = "generate"
    /\ "text" \in DOMAIN out
    /\ Flat(arg.recipes) =
          <<Ingredient(<<"T", "o", "m", "a", "t", "o">>, <<"2">>),
            Ingredient(K_tomato, Q_200g_padded),
            Ingredient(<<"O", "n", "i", "o", "n">>, <<"1">>)>>

\* C21 as claimed: on the example, generate returns tomato -> ["2","200g"],
\* onion -> ["1"], and format renders "Shopping List:", "- Onion: 1",
\* "- Tomato: 2, 200g".
C21_ExampleTrimmed ==
    ExampleGiven =>
        /\ DOMAIN out.list = {K_tomato, K_onion}
        /\ out.list[K_tomato] = <<(<<"2">>), Q_200g>>
        /\ out.list[K_onion] = <<(<<"1">>)>>
        /\ out.text = Header \o <<NL>> \o L_onion \o <<NL>> \o L_tomato \o Q_200g

\* C21 amended: on the example, generate returns tomato -> ["2"," 200g "]
\* (the quantity as it was given, with its spaces), onion -> ["1"], and
\* format renders "Shopping List:", "- Onion: 1", "- Tomato: 2,  200g ".
C21_ExampleUntouched ==
    ExampleGiven =>
        /\ DOMAIN out.list = {K_tomato, K_onion}
        /\ out.list[K_tomato] = <<(<<"2">>), Q_200g_padded>>
        /\ out.list[K_onion] = <<(<<"1">>)>>
        /\ out.text = Header \o <<NL>> \o L_onion \o <<NL>> \o L_tomato
                             \o Q_200g_padded

\* the example was generated and formatted from two recipes
C21_Witness == ExampleGiven /\ Len(arg.recipes) = 2

\* C22 as claimed: a write failure during the shell's add, toggle or delete
\* command does not end the process: the command loop goes on.
C22_LoopSurvivesWriteFailure ==
    (ret.outcome = "RuntimeError" /\ shell.cmd \in {"add", "toggle", "delete"})
        => pc # "exited"

\* C28 as claimed: a numeric argument of view, toggle or delete that is a
\* position of the list displayed last resolves to the recipe shown at that
\* position, and the manager is called with that recipe's id.
C28_IndexIntoDisplayedList ==
    (/\ shell.cmd \in {"view", "toggle", "delete"}
     /\ shell.index \in 1..Len(shell.shown))
    => /\ shell.target = Some(shell.shown[shell.index])
       /\ InSave => call.rid = shell.shown[shell.index]

\* the number of entries of t equal to x
RECURSIVE Count(_, _)
Count(t, x) ==
    IF t = <<>> THEN 0
    ELSE (IF Head(t) = x THEN 1 ELSE 0) + Count(Tail(t), x)

\* C23 as claimed: a save that failed while a backup exists went through
\* RestoreFromBackup before the failure was signalled to the caller.
C23_FailureRestoresFirst ==
    (Raised /\ Exists(backup)) =>
        \E k \in 1..(Len(trail) - 1) :
            trail[k] = "RestoreFromBackup" /\ trail[k + 1] = "Failed"

\* C24 as claimed: a load copies the backup over the primary file at most
\* once.
C24_RetriesAtMostOnce ==
    (pc \in {"load_read", "load_restore", "returned"} /\ ret.op \in {"none", "init"})
        => Count(trail, "Copied") <= 1

\* the record deserializes: it is an object and its ingredient entries have
\* name and quantity
Deserializable(d) == IsObject(d) /\ IngredientsOk(d)

\* the constructor's load has returned and read, without an I/O failure, a
\* primary file that is JSON of valid shape
LoadedValidShape ==
    /\ Returned
    /\ ret.op = "init"
    /\ old.kind = "json"
    /\ old.shape \in {"array", "wrapped"}
    /\ trail # <<"IOError">>

\* C25 as claimed: from a primary file that is JSON of valid shape, load
\* returns, in file order, exactly the records that deserialize; a record
\* that does not is skipped.
C25_InvalidRecordsSkipped ==
    LoadedValidShape =>
        LET valid == SelectSeq(old.recs, Deserializable)
        IN /\ Len(recipes) = Len(valid)
           /\ \A k \in 1..Len(valid) :
                 recipes[k] = from_dict(valid[k], recipes[k].id)

\* C26 as claimed: the temp file does not exist unless a save is in progress.
C26_TempTransient == ~InSave => ~Exists(temp)

\* C27 as claimed, in the part that the files show: whenever the backup file
\* is written, what it then holds is a complete collection, the one the
\* primary file holds.
C27_BackupCommitted ==
    [][backup' # backup => (backup'.kind = "json" /\ backup' = primary)]_vars

\* the calls that only read the collection
QueryOps == {"get_all", "get_by_id", "get_favorites", "search"}

\* positions of the collection rs, each before the next
InOrder(ps, rs) ==
    /\ \A k \in 1..Len(ps) : ps[k] \in 1..Len(rs)
    /\ \A i, j \in 1..Len(ps) : i < j => ps[i] < ps[j]

\* C29: get_all_recipes, get_recipe_by_id, get_favorite_recipes and
\* search_recipes change neither the collection nor any file and return
\* recipes in the order of the collection; whatever the caller then does to
\* the list get_all_recipes returned (removing, reordering or adding
\* elements), the collection and the files stay as they are.
C29_QueriesReadOnly ==
    [][(pc' = "returned" /\ ret'.op \in QueryOps) =>
          /\ recipes' = recipes
          /\ files' = files
          /\ UNCHANGED <<nid, events, failed>>
          /\ pc = "idle" => InOrder(out'.hits, recipes)
          /\ (pc = "idle" /\ ret'.op = "get_all")
                => out'.hits = all_recipes(recipes)]_vars

\* the caller has changed the list get_all_recipes returned on a collection
\* of two recipes or more: it is no longer the collection's sequence
C29_Witness ==
    /\ Returned
    /\ ret.op = "get_all"
    /\ out.edited
    /\ Len(recipes) >= 2
    /\ out.hits # all_recipes(recipes)

\* the recipes the ids resolve to, unknown ids skipped
ResolvedRecipes(ids) ==
    LET known == SelectSeq(ids, LAMBDA id : get_recipe_by_id(recipes, id) # 0)
    IN [k \in 1..Len(known) |-> recipes[get_recipe_by_id(recipes, known[k])]]

\* C30 as claimed: generate_shopping_list(ids) returns what
\* ShoppingListGenerator.generate returns on the recipes the ids resolve to
\* (names merged under the lowercased, trimmed key), and
\* format_shopping_list renders the text ShoppingListGenerator.format
\* renders.
C30_ManagerAgreesWithAggregator ==
    (Returned /\ ret.op = "generate_shopping_list") =>
        /\ out.list = shopping_list(ResolvedRecipes(arg.ids))
        /\ "text" \in DOMAIN out => out.text = format_text(out.list)

====
